---- MODULE Spec2Model ----
(***************************************************************************)
(* Model of tui.util.HashMap (src/src/hashMap.js) and, in the last part,   *)
(* of ne.util.defineNamespace (src/src/defineNamespace.js).                *)
(*                                                                         *)
(* A HashMap instance is a JavaScript object.  It is modelled as the       *)
(* sequence of its own properties in enumeration order: each property is   *)
(* a record [name, value].  Property names and user keys are strings,      *)
(* modelled as sequences of one-character strings so that encodeKey        *)
(* (prefixing) and decodeKey (split, keep last segment) are computed as    *)
(* the code computes them.  User values are the strings of Values; the     *)
(* JavaScript values null, undefined and false are "null", "undefined"     *)
(* and "false".                                                            *)
(***************************************************************************)
EXTENDS Integers, Sequences, FiniteSets, TLC

VARIABLES heap, ref, last, steps

vars == <<heap, ref, last, steps>>

(***************************************************************************)
(* Bounds of the model.                                                    *)
(***************************************************************************)
\* number of API calls made after construction
MaxSteps == 2
\* longest key list handed to remove (array or variadic form)
MaxKeyArray == 2

\* longest key of the runs that encode and decode keys
MaxKeyLen == 3

\* calls of defineNamespace in a run
MaxDefines == 2

(***************************************************************************)
(* Strings.                                                                *)
(***************************************************************************)
\* var _MAPDATAPREFIX = 'å';
MAPDATAPREFIX == "å"

\* the name of the size field set by the constructor
LENGTH == <<"l", "e", "n", "g", "t", "h">>

\* the user keys the calls draw from: two plain keys and one key that
\* contains the prefix character
Keys == { <<"a">>, <<"b">>, <<"a", MAPDATAPREFIX, "b">> }

\* the values the calls store
Values == { "v1", "v2", "null", "undefined" }

\* the two HashMap instances
Stores == { "A", "B" }

SeqMax(S) == CHOOSE m \in S : \A n \in S : n <= m

(***************************************************************************)
(* Own properties of an object, in enumeration order.  No name modelled    *)
(* here is an integer index, so enumeration order is creation order.       *)
(***************************************************************************)
hasOwnProperty(obj, name) == \E i \in DOMAIN obj : obj[i].name = name

\* names of methods an instance inherits: HashMap.prototype.set and has, and
\* Object.prototype.hasOwnProperty
SET == <<"s", "e", "t">>
HAS == <<"h", "a", "s">>
HASOWNPROPERTY == <<"h", "a", "s", "O", "w", "n", "P", "r", "o", "p", "e", "r", "t", "y">>
PrototypeNames == { SET, HAS, HASOWNPROPERTY }

\* obj[name]: the value of the own property, else the inherited method,
\* else undefined
GetProp(obj, name) ==
    IF hasOwnProperty(obj, name)
    THEN obj[CHOOSE i \in DOMAIN obj : obj[i].name = name].value
    ELSE IF name \in PrototypeNames THEN "function" ELSE "undefined"

\* obj[name] = value: an existing property keeps its position, a new one
\* goes to the end
SetProp(obj, name, value) ==
    IF hasOwnProperty(obj, name)
    THEN [i \in DOMAIN obj |->
            IF obj[i].name = name THEN [name |-> name, value |-> value] ELSE obj[i]]
    ELSE Append(obj, [name |-> name, value |-> value])

\* delete obj[name]
DeleteProp(obj, name) == SelectSeq(obj, LAMBDA p : p.name # name)

PropNames(obj) == [i \in DOMAIN obj |-> obj[i].name]

(***************************************************************************)
(* HashMap methods that do not iterate.                                    *)
(***************************************************************************)
encodeKey(key) == <<MAPDATAPREFIX>> \o key

\* decodeKey as key.substring(1): the key without its first character
decodeKey_Substring(key) == SubSeq(key, 2, Len(key))

decodeKey(key) ==
    LET at == { i \in DOMAIN key : key[i] = MAPDATAPREFIX }
    IN  IF at = {} THEN key ELSE SubSeq(key, SeqMax(at) + 1, Len(key))

get(obj, key) == GetProp(obj, encodeKey(key))

has(obj, key) == hasOwnProperty(obj, encodeKey(key))

\* setKeyValue without the has(key) test: every call counts
setKeyValue_AlwaysCount(obj, key, value) ==
    SetProp(SetProp(obj, LENGTH, GetProp(obj, LENGTH) + 1), encodeKey(key), value)

setKeyValue(obj, key, value) ==
    LET counted == IF ~has(obj, key)
                   THEN SetProp(obj, LENGTH, GetProp(obj, LENGTH) + 1)
                   ELSE obj
    IN  SetProp(counted, encodeKey(key), value)

\* removeByKey without "this.length -= 1"
removeByKey_NoDecrement(obj, key) ==
    LET data == IF has(obj, key) THEN get(obj, key) ELSE "null"
    IN  IF data # "null"
        THEN [obj |-> DeleteProp(obj, encodeKey(key)), data |-> data]
        ELSE [obj |-> obj, data |-> data]

\* removeByKey without the "data !== null" test
removeByKey_Unguarded(obj, key) ==
    LET data == IF has(obj, key) THEN get(obj, key) ELSE "null"
    IN  [obj  |-> SetProp(DeleteProp(obj, encodeKey(key)),
                          LENGTH, GetProp(obj, LENGTH) - 1),
         data |-> data]

\* the object after the call and the returned data
removeByKey(obj, key) ==
    LET data == IF has(obj, key) THEN get(obj, key) ELSE "null"
    IN  IF data # "null"
        THEN [obj  |-> SetProp(DeleteProp(obj, encodeKey(key)),
                               LENGTH, GetProp(obj, LENGTH) - 1),
              data |-> data]
        ELSE [obj |-> obj, data |-> data]

\* removeByKeyArray that pushes only the data of keys it removed
RECURSIVE removeByKeyArray_SkipMissing(_, _)
removeByKeyArray_SkipMissing(obj, keyArray) ==
    IF keyArray = <<>>
    THEN [obj |-> obj, data |-> <<>>]
    ELSE LET one  == removeByKey(obj, Head(keyArray))
             rest == removeByKeyArray_SkipMissing(one.obj, Tail(keyArray))
         IN  [obj  |-> rest.obj,
              data |-> IF one.data = "null" THEN rest.data ELSE <<one.data>> \o rest.data]

\* tui.util.forEach over the key array; the callback returns undefined,
\* so every key is processed
RECURSIVE removeByKeyArray(_, _)
removeByKeyArray(obj, keyArray) ==
    IF keyArray = <<>>
    THEN [obj |-> obj, data |-> <<>>]
    ELSE LET one  == removeByKey(obj, Head(keyArray))
             rest == removeByKeyArray(one.obj, Tail(keyArray))
         IN  [obj |-> rest.obj, data |-> <<one.data>> \o rest.data]

(***************************************************************************)
(* Iteration.  tui.util.forEachOwnProperties (collection.js) is a for-in   *)
(* loop over the own properties of an object that stops when the callback  *)
(* returns false.  The functions handed to it are represented by records   *)
(* (kind and captured variables); the state they act on is the record      *)
(*   st = [heap, flag, acc, visits, ret, visitNew]                         *)
(* heap: the HashMap instances; flag: the local variable of each; acc: the *)
(* array a callback pushes to; visits: calls of a user visitor; ret: what  *)
(* the last callback returned; visitNew: whether the engine enumerates     *)
(* properties that were added to the object during the loop.               *)
(***************************************************************************)

\* JavaScript truthiness of the values the model uses
Truthy(v) == v \notin { "false", "undefined", "null", "0", "" }

\* condition(value, key) of a caller of find: value === arg, key === arg,
\* or the value itself
condition(c, value, key) ==
    CASE c.test = "valueIs" -> IF value = c.arg THEN "true" ELSE "false"
      [] c.test = "keyIs" -> IF key = c.arg THEN "true" ELSE "false"
      [] c.test = "value" -> value

\* the function passed to each
Iteratee(it, st, value, key) ==
    CASE it.kind = "merge" ->
            \* function(value, key) { self.setKeyValue(key, value); }
            [st EXCEPT !.heap[it.self] = setKeyValue(@, key, value),
                       !.ret = "undefined"]
      [] it.kind = "removeAll" ->
            \* function(value, key) { self.remove(key); }  (one string argument)
            \* acc notes the key received and the properties the call deleted
            LET removed == removeByKey(st.heap[it.self], key).obj
            IN  [st EXCEPT !.heap[it.self] = removed,
                           !.visits = @ + 1,
                           !.acc = Append(@, [key |-> key,
                                              deleted |-> { st.heap[it.self][i].name :
                                                              i \in DOMAIN st.heap[it.self] }
                                                          \ { removed[i].name :
                                                                i \in DOMAIN removed }]),
                           !.ret = "undefined"]
      [] it.kind = "keys" ->
            \* function(value, key) { keys.push(self.decodeKey(key)); }
            [st EXCEPT !.acc = Append(@, decodeKey(key)), !.ret = "undefined"]
      [] it.kind = "toArray" ->
            \* function(v) { result.push(v); }
            [st EXCEPT !.acc = Append(@, value), !.ret = "undefined"]
      [] it.kind = "find" ->
            \* function(value, key) { if (condition(value, key)) founds.push(value); }
            [st EXCEPT !.acc = IF Truthy(condition(it.condition, value, key))
                                THEN Append(@, value) ELSE @,
                       !.ret = "undefined"]
      [] it.kind = "visitor" ->
            \* a caller's visitor: returns false on its stopAt-th call and
            \* the value other on every other call
            [st EXCEPT !.visits = @ + 1,
                       !.acc = Append(@, key),
                       !.ret = IF st.visits + 1 = it.stopAt THEN "false" ELSE it.other]

\* the callback of each with "if (!flag)" for "if (flag === false)"
eachCallback_Falsy(it, st, value, key) ==
    LET called == IF key[1] = MAPDATAPREFIX
                  THEN LET r == Iteratee(it, st, value, decodeKey(key))
                       IN  [r EXCEPT !.flag = r.ret]
                  ELSE st
    IN  [called EXCEPT !.ret = IF called.flag \in { "false", "undefined", "null", "0", "" }
                               THEN "false" ELSE "undefined"]

\* the callback of each without the test of the first character
eachCallback_NoPrefixTest(it, st, value, key) ==
    LET r == Iteratee(it, st, value, decodeKey(key))
        called == [r EXCEPT !.flag = r.ret]
    IN  [called EXCEPT !.ret = IF called.flag = "false" THEN "false" ELSE "undefined"]

\* the callback each hands to forEachOwnProperties
eachCallback(it, st, value, key) ==
    LET called == IF key[1] = MAPDATAPREFIX
                  THEN LET r == Iteratee(it, st, value, decodeKey(key))
                       IN  [r EXCEPT !.flag = r.ret]
                  ELSE st
    IN  [called EXCEPT !.ret = IF called.flag = "false" THEN "false" ELSE "undefined"]

\* the callback of setObject returning false, which ends the loop
setObjectCallback_ReturnsFalse(self, st, value, key) ==
    [st EXCEPT !.heap[self] = setKeyValue(@, key, value), !.ret = "false"]

\* the callback setObject hands to forEachOwnProperties
setObjectCallback(self, st, value, key) ==
    [st EXCEPT !.heap[self] = setKeyValue(@, key, value), !.ret = "undefined"]

Callback(cb, st, value, key) ==
    IF cb.kind = "each"
    THEN eachCallback(cb.iteratee, st, value, key)
    ELSE setObjectCallback(cb.self, st, value, key)

\* the object being enumerated: an instance of the heap or a plain object
Enumerated(src, st) == IF src.ref = "literal" THEN src.obj ELSE st.heap[src.ref]

\* names: the properties still to enumerate; seen: those enumerated or
\* scheduled.  A property deleted before its turn is skipped.
RECURSIVE ForInLoop(_, _, _, _, _)
ForInLoop(names, seen, src, cb, st) ==
    IF names = <<>>
    THEN LET added == SelectSeq(PropNames(Enumerated(src, st)),
                                LAMBDA n : n \notin seen)
         IN  IF st.visitNew /\ added # <<>>
             THEN ForInLoop(added, seen \cup { added[i] : i \in DOMAIN added },
                            src, cb, st)
             ELSE st
    ELSE LET name == Head(names)
             obj  == Enumerated(src, st)
         IN  IF ~hasOwnProperty(obj, name)
             THEN ForInLoop(Tail(names), seen, src, cb, st)
             ELSE LET after == Callback(cb, st, GetProp(obj, name), name)
                  IN  IF after.ret = "false"
                      THEN after
                      ELSE ForInLoop(Tail(names), seen, src, cb, after)

forEachOwnProperties(src, cb, st) ==
    LET names == PropNames(Enumerated(src, st))
    IN  ForInLoop(names, { names[i] : i \in DOMAIN names }, src, cb, st)

IterState(h, visitNew) ==
    [heap |-> h, flag |-> "undefined", acc |-> <<>>, visits |-> 0,
     ret |-> "undefined", visitNew |-> visitNew]

(***************************************************************************)
(* HashMap methods that iterate.  Each takes the heap and returns the      *)
(* iteration state it ends in.                                             *)
(***************************************************************************)
\* each leaving in length the number of elements its iteratee collected
each_Recounts(h, s, it, visitNew) ==
    LET st == forEachOwnProperties([ref |-> s, obj |-> <<>>],
                                   [kind |-> "each", iteratee |-> it],
                                   IterState(h, visitNew))
    IN  [st EXCEPT !.heap[s] = SetProp(@, LENGTH, Len(st.acc))]

each(h, s, it, visitNew) ==
    forEachOwnProperties([ref |-> s, obj |-> <<>>],
                         [kind |-> "each", iteratee |-> it],
                         IterState(h, visitNew))

setObject(h, s, obj) ==
    forEachOwnProperties([ref |-> "literal", obj |-> obj],
                         [kind |-> "setObject", self |-> s],
                         IterState(h, FALSE)).heap

merge(h, s, other, visitNew) ==
    each(h, other, [kind |-> "merge", self |-> s], visitNew).heap

removeAll(h, s) ==
    each(h, s, [kind |-> "removeAll", self |-> s], FALSE)

keys(obj) ==
    each([s \in Stores |-> obj], "A", [kind |-> "keys"], FALSE).acc

toArray(obj) ==
    each([s \in Stores |-> obj], "A", [kind |-> "toArray"], FALSE).acc

find(obj, c) ==
    each([s \in Stores |-> obj], "A", [kind |-> "find", condition |-> c], FALSE).acc

\* remove(key): args = [form, keys].  With more than one argument (form
\* "variadic") key becomes the array of the arguments; an array goes to
\* removeByKeyArray, a single string to removeByKey.  The result carries
\* data for a returned value and array for a returned array.
remove(obj, args) ==
    LET isArray == args.form = "array" \/ (args.form = "variadic" /\ Len(args.keys) > 1)
    IN  IF isArray
        THEN LET r == removeByKeyArray(obj, args.keys)
             IN  [obj |-> r.obj, isArray |-> TRUE, data |-> "undefined", array |-> r.data]
        ELSE LET r == removeByKey(obj, args.keys[1])
             IN  [obj |-> r.obj, isArray |-> FALSE, data |-> r.data, array |-> <<>>]

\* new HashMap(obj): obj = <<>> stands for a call without data
HashMap(obj) ==
    LET fresh == << [name |-> LENGTH, value |-> 0] >>
    IN  IF obj # <<>>
        THEN setObject([s \in Stores |-> fresh], "A", obj)["A"]
        ELSE fresh

(***************************************************************************)
(* Inputs of the calls.                                                    *)
(***************************************************************************)
Prop(key, value) == [name |-> key, value |-> value]

\* plain objects handed to the constructor and to set / setObject, as the
\* sequence of their own properties
Objects ==
    { << Prop(<<"a">>, "null") >>,
      << Prop(<<"a">>, "v1"), Prop(<<"b">>, "v2") >>,
      << Prop(<<"a", MAPDATAPREFIX, "b">>, "undefined"), Prop(<<"b">>, "v2") >> }

\* the keys that key lists are made of
ListKeys == { <<"a">>, <<"b">> }

\* key lists of 0 .. n keys, with repetitions
RECURSIVE KeyLists(_)
KeyLists(n) ==
    IF n = 0
    THEN { <<>> }
    ELSE LET shorter == KeyLists(n - 1)
         IN  shorter \cup { Append(l, k) : l \in shorter, k \in ListKeys }

\* the argument lists of remove: one string, one array, or several strings
RemoveArgs ==
    { [form |-> "scalar", keys |-> <<k>>] : k \in Keys }
    \cup { [form |-> "array", keys |-> l] : l \in KeyLists(MaxKeyArray) }
    \cup { [form |-> "variadic", keys |-> l] :
             l \in { m \in KeyLists(MaxKeyArray) : Len(m) > 1 } }

\* what a visitor returns when it does not return false
OtherReturns == { "undefined", "null", "0", "" }

\* visitors handed to each: stopAt = 0 never returns false
\* the conditions callers pass to find
Conditions ==
    { [test |-> "valueIs", arg |-> "v2"],
      [test |-> "keyIs", arg |-> <<"b">>],
      [test |-> "value", arg |-> "undefined"] }

Visitors ==
    { [kind |-> "visitor", stopAt |-> n, other |-> r] :
        n \in 0 .. Cardinality(Keys), r \in OtherReturns }

(***************************************************************************)
(* The reference map: what the calls made so far amount to, as a sequence  *)
(* of [name, value] entries in order of first insertion.  It is history    *)
(* kept for the properties and is never read by the methods.               *)
(***************************************************************************)
RefHas(m, key) == \E i \in DOMAIN m : m[i].name = key

RefSet(m, key, value) ==
    IF RefHas(m, key)
    THEN [i \in DOMAIN m |-> IF m[i].name = key THEN Prop(key, value) ELSE m[i]]
    ELSE Append(m, Prop(key, value))

RefRemove(m, key) == SelectSeq(m, LAMBDA e : e.name # key)

RECURSIVE RefSetAll(_, _)
RefSetAll(m, entries) ==
    IF entries = <<>>
    THEN m
    ELSE RefSetAll(RefSet(m, Head(entries).name, Head(entries).value), Tail(entries))

RECURSIVE RefRemoveAll(_, _)
RefRemoveAll(m, keyList) ==
    IF keyList = <<>> THEN m ELSE RefRemoveAll(RefRemove(m, Head(keyList)), Tail(keyList))

(***************************************************************************)
(* State: heap holds the two instances, ref their reference maps, steps    *)
(* counts the calls made, and last is the call that has just been made,    *)
(* with its arguments, the state it started from and what it returned,     *)
(* until the caller goes on (Return); its op is "new" after construction   *)
(* and "idle" between calls.                                               *)
(***************************************************************************)
NoCall ==
    [op |-> "new", store |-> "A", other |-> "A", key |-> <<>>, value |-> "undefined",
     args |-> [form |-> "scalar", keys |-> <<>>], obj |-> <<>>,
     visitor |-> [kind |-> "visitor", stopAt |-> 0, other |-> "undefined"],
     condition |-> [test |-> "value", arg |-> "undefined"],
     visitNew |-> FALSE, pre |-> heap,
     isArray |-> FALSE, data |-> "undefined", array |-> <<>>,
     visits |-> 0, visited |-> <<>>]

Init ==
    /\ \E oa \in Objects \cup { <<>> }, ob \in Objects \cup { <<>> } :
          /\ heap = [s \in Stores |-> IF s = "A" THEN HashMap(oa) ELSE HashMap(ob)]
          /\ ref = [s \in Stores |-> IF s = "A" THEN RefSetAll(<<>>, oa)
                                                ELSE RefSetAll(<<>>, ob)]
    /\ last = NoCall
    /\ steps = 0

\* the caller is ready to make a call
Ready == last.op \in { "new", "idle" } /\ steps < MaxSteps

\* s.set(key, value)
Set(s, key, value) ==
    /\ Ready
    /\ heap' = [heap EXCEPT ![s] = setKeyValue(@, key, value)]
    /\ ref' = [ref EXCEPT ![s] = RefSet(@, key, value)]
    /\ last' = [NoCall EXCEPT !.op = "set", !.store = s, !.key = key, !.value = value]
    /\ steps' = steps + 1

\* s.set(obj) and s.setObject(obj)
SetObject(s, obj) ==
    /\ Ready
    /\ heap' = setObject(heap, s, obj)
    /\ ref' = [ref EXCEPT ![s] = RefSetAll(@, obj)]
    /\ last' = [NoCall EXCEPT !.op = "setObject", !.store = s, !.obj = obj]
    /\ steps' = steps + 1

\* s.merge(other); other may be s itself
Merge(s, other, visitNew) ==
    /\ Ready
    /\ heap' = merge(heap, s, other, visitNew)
    /\ ref' = [ref EXCEPT ![s] = RefSetAll(@, ref[other])]
    /\ last' = [NoCall EXCEPT !.op = "merge", !.store = s, !.other = other,
                              !.visitNew = visitNew]
    /\ steps' = steps + 1

\* s.remove(key), s.remove([key, ...]) and s.remove(key, key, ...)
Remove(s, args) ==
    /\ Ready
    /\ LET r == remove(heap[s], args)
       IN  /\ heap' = [heap EXCEPT ![s] = r.obj]
           /\ last' = [NoCall EXCEPT !.op = "remove", !.store = s, !.args = args,
                                     !.isArray = r.isArray, !.data = r.data,
                                     !.array = r.array]
    /\ ref' = [ref EXCEPT ![s] = RefRemoveAll(@, args.keys)]
    /\ steps' = steps + 1

\* s.removeAll()
RemoveAll(s) ==
    /\ Ready
    /\ LET st == removeAll(heap, s)
       IN  /\ heap' = st.heap
           /\ last' = [NoCall EXCEPT !.op = "removeAll", !.store = s,
                                     !.visits = st.visits, !.visited = st.acc]
    /\ ref' = [ref EXCEPT ![s] = <<>>]
    /\ steps' = steps + 1

\* s.each(visitor) with a visitor that only counts and returns
Each(s, visitor) ==
    /\ Ready
    /\ LET st == each(heap, s, visitor, FALSE)
       IN  /\ heap' = st.heap
           /\ last' = [NoCall EXCEPT !.op = "each", !.store = s, !.visitor = visitor,
                                     !.visits = st.visits, !.visited = st.acc]
    /\ ref' = ref
    /\ steps' = steps + 1

\* s.get(key)
Get(s, key) ==
    /\ Ready
    /\ last' = [NoCall EXCEPT !.op = "get", !.store = s, !.key = key,
                              !.data = get(heap[s], key)]
    /\ steps' = steps + 1
    /\ UNCHANGED <<heap, ref>>

\* s.has(key)
Has(s, key) ==
    /\ Ready
    /\ last' = [NoCall EXCEPT !.op = "has", !.store = s, !.key = key,
                              !.data = IF has(heap[s], key) THEN "true" ELSE "false"]
    /\ steps' = steps + 1
    /\ UNCHANGED <<heap, ref>>

\* s.keys()
KeysOf(s) ==
    /\ Ready
    /\ LET st == each(heap, s, [kind |-> "keys"], FALSE)
       IN  /\ heap' = st.heap
           /\ last' = [NoCall EXCEPT !.op = "keys", !.store = s, !.array = st.acc]
    /\ ref' = ref
    /\ steps' = steps + 1

\* s.toArray()
ToArray(s) ==
    /\ Ready
    /\ LET st == each(heap, s, [kind |-> "toArray"], FALSE)
       IN  /\ heap' = st.heap
           /\ last' = [NoCall EXCEPT !.op = "toArray", !.store = s, !.array = st.acc]
    /\ ref' = ref
    /\ steps' = steps + 1

\* s.find(condition) with a condition that only looks at its arguments
Find(s, c) ==
    /\ Ready
    /\ LET st == each(heap, s, [kind |-> "find", condition |-> c], FALSE)
       IN  /\ heap' = st.heap
           /\ last' = [NoCall EXCEPT !.op = "find", !.store = s, !.condition = c,
                                     !.array = st.acc]
    /\ ref' = ref
    /\ steps' = steps + 1

\* the caller takes the result of the call and goes on
Return ==
    /\ last.op \notin { "new", "idle" }
    /\ last' = [NoCall EXCEPT !.op = "idle"]
    /\ UNCHANGED <<heap, ref, steps>>

Next ==
    \/ \E s \in Stores, key \in Keys, value \in Values : Set(s, key, value)
    \/ \E s \in Stores, obj \in Objects : SetObject(s, obj)
    \/ \E s \in Stores, other \in Stores :
          \E visitNew \in (IF s = other THEN BOOLEAN ELSE { FALSE }) :
              Merge(s, other, visitNew)
    \/ \E s \in Stores, args \in RemoveArgs : Remove(s, args)
    \/ \E s \in Stores : RemoveAll(s)
    \/ \E s \in Stores, visitor \in Visitors : Each(s, visitor)
    \/ \E s \in Stores, key \in Keys : Get(s, key)
    \/ \E s \in Stores, key \in Keys : Has(s, key)
    \/ \E s \in Stores : KeysOf(s)
    \/ \E s \in Stores : ToArray(s)
    \/ \E s \in Stores, c \in Conditions : Find(s, c)
    \/ Return

Spec == Init /\ [][Next]_vars

(***************************************************************************)
(* Observations used by the properties.                                    *)
(***************************************************************************)
\* the user entries of an instance: the own properties whose name starts
\* with the prefix
Entries(obj) == SelectSeq(obj, LAMBDA p : p.name[1] = MAPDATAPREFIX)

\* the size field
Length(obj) == GetProp(obj, LENGTH)

TypeOK ==
    /\ steps \in 0 .. MaxSteps
    /\ \A s \in Stores : Len(heap[s]) >= 1 /\ heap[s][1].name = LENGTH

\* the instance the last call was made on, before and after the call
Pre == last.pre[last.store]
Post == heap[last.store]

\* the entries of an instance other than the one stored for key
EntriesBut(obj, key) == SelectSeq(Entries(obj), LAMBDA p : p.name # encodeKey(key))

\* every instance the last call was not made on is as it was
OthersUnchanged == \A s \in Stores \ { last.store } : heap[s] = last.pre[s]

(***************************************************************************)
(* C1.  Count invariant: after construction and after every call, with any *)
(* stored values, the length field of an instance equals the number of     *)
(* entries it stores and the length of keys().                             *)
(***************************************************************************)
C1_CountInvariant ==
    \A s \in Stores :
        /\ Length(heap[s]) = Len(Entries(heap[s]))
        /\ Length(heap[s]) = Len(keys(heap[s]))

\* an array remove that took an instance holding null and undefined from
\* three entries to two
C1_Witness ==
    /\ last.op = "remove"
    /\ last.isArray
    /\ Length(Pre) = 3
    /\ Length(Post) = 2
    /\ \E i \in DOMAIN Entries(Post) : Entries(Post)[i].value = "null"
    /\ \E i \in DOMAIN Entries(Post) : Entries(Post)[i].value = "undefined"

(***************************************************************************)
(* C3.  Removing a missing key: remove(k) for a key that is not present    *)
(* returns null and leaves the length, the entries and their order (and    *)
(* the other instance) unchanged.                                          *)
(***************************************************************************)
C3_RemoveMissing ==
    (last.op = "remove" /\ last.args.form = "scalar" /\ ~has(Pre, last.args.keys[1]))
        => /\ ~last.isArray
           /\ last.data = "null"
           /\ heap = last.pre

\* remove of a missing key on an instance that holds other entries
C3_Witness ==
    /\ last.op = "remove"
    /\ last.args.form = "scalar"
    /\ ~has(Pre, last.args.keys[1])
    /\ Length(Pre) = 2

(***************************************************************************)
(* C5.  Set and overwrite: set(k, v) on an absent key adds one to length,  *)
(* on a present key leaves length unchanged; afterwards get(k) is v, and   *)
(* no other entry (value or position) and no other instance changes.       *)
(***************************************************************************)
C5_SetOverwrite ==
    last.op = "set"
        => /\ Length(Post) = IF has(Pre, last.key) THEN Length(Pre) ELSE Length(Pre) + 1
           /\ has(Post, last.key)
           /\ get(Post, last.key) = last.value
           /\ EntriesBut(Post, last.key) = EntriesBut(Pre, last.key)
           /\ has(Pre, last.key)
                => PropNames(Entries(Post)) = PropNames(Entries(Pre))
           /\ OthersUnchanged

\* the second of two sets of the same key with a different value, on an
\* instance with another entry
C5_Witness ==
    /\ last.op = "set"
    /\ has(Pre, last.key)
    /\ get(Pre, last.key) # last.value
    /\ Length(Post) = 2
    /\ steps = 2

(***************************************************************************)
(* C8.  Early exit of each: a visitor that returns false on its n-th call  *)
(* is called exactly n times, whatever the size of the instance; a visitor *)
(* that returns anything else (undefined, null, 0, the empty string)       *)
(* is called once for every entry, in order.                               *)
(***************************************************************************)
C8_EarlyExit ==
    last.op = "each"
        => LET n == Len(Entries(Pre))
               stop == last.visitor.stopAt
               calls == IF stop \in 1 .. n THEN stop ELSE n
           IN  /\ last.visits = calls
               /\ last.visited = [i \in 1 .. calls |-> decodeKey(Entries(Pre)[i].name)]
               /\ heap = last.pre

\* a visitor that returns 0 on its first call and false on its second, on
\* an instance of three entries
C8_Witness ==
    /\ last.op = "each"
    /\ last.visitor.stopAt = 2
    /\ last.visitor.other = "0"
    /\ Len(Entries(Pre)) = 3
    /\ last.visits = 2

(***************************************************************************)
(* C9.  Scalar versus array remove: remove of an array of keys, and remove *)
(* of two or more key arguments, returns an array with one element per     *)
(* key: the value removed for that key, or null if the key was not present *)
(* at that moment; remove of one string returns a value or null, never an  *)
(* array.                                                                  *)
(***************************************************************************)
C9_RemoveForms ==
    last.op = "remove"
        => LET ks == last.args.keys
               \* what the i-th removal returns: the value stored before the
               \* call, unless an earlier element of the list removed it
               expected(i) ==
                   IF has(Pre, ks[i]) /\ \A j \in 1 .. (i - 1) : ks[j] # ks[i]
                   THEN get(Pre, ks[i])
                   ELSE "null"
           IN  IF last.args.form = "scalar"
               THEN /\ ~last.isArray
                    /\ last.array = <<>>
                    /\ last.data = expected(1)
               ELSE /\ last.isArray
                    /\ Len(last.array) = Len(ks)
                    /\ \A i \in DOMAIN ks : last.array[i] = expected(i)

\* remove(['a', 'b']) on three entries: returns the two values and leaves
\* the third entry
C9_Witness ==
    /\ last.op = "remove"
    /\ last.args.form = "array"
    /\ Len(last.args.keys) = 2
    /\ Length(Pre) = 3
    /\ \A i \in DOMAIN last.array : last.array[i] \in { "v1", "v2" }
    /\ Length(Post) = 1
    /\ Len(keys(Post)) = 1

(***************************************************************************)
(* C2.  Removing a present key: remove(k) for a present key, whatever its  *)
(* value, returns the stored value, takes one from length, makes has(k)    *)
(* false and leaves every other entry's value and position unchanged.      *)
(***************************************************************************)
C2_RemovePresent ==
    (last.op = "remove" /\ last.args.form = "scalar" /\ has(Pre, last.args.keys[1]))
        => /\ ~last.isArray
           /\ last.data = get(Pre, last.args.keys[1])
           /\ Length(Post) = Length(Pre) - 1
           /\ ~has(Post, last.args.keys[1])
           /\ Entries(Post) = EntriesBut(Pre, last.args.keys[1])
           /\ OthersUnchanged

(***************************************************************************)
(* C4.  removeAll drains the instance: after removeAll(), whatever keys    *)
(* and values were stored, length is 0, keys() is empty and has(k) is      *)
(* false for every key.                                                    *)
(***************************************************************************)
C4_RemoveAllDrains ==
    last.op = "removeAll"
        => /\ Length(Post) = 0
           /\ keys(Post) = <<>>
           /\ \A k \in Keys : ~has(Post, k)

(***************************************************************************)
(* C6.  Order preservation: keys() lists the keys that were set and not    *)
(* removed since, in the order of their first insertion (for a key removed *)
(* and set again, the insertion after the removal).                        *)
(***************************************************************************)
C6_KeysInInsertionOrder ==
    \A s \in Stores : keys(heap[s]) = PropNames(ref[s])

(***************************************************************************)
(* C7.  Merge: after A.merge(B) with B another instance, every key of B is *)
(* in A with B's value, every key of A that is not in B keeps its value    *)
(* and position, the keys new to A follow in B's order, A.length is the    *)
(* number of distinct keys of the union, and B is unchanged.               *)
(***************************************************************************)
C7_Merge ==
    (last.op = "merge" /\ last.other # last.store)
        => LET preA == last.pre[last.store]
               preB == last.pre[last.other]
               new  == SelectSeq(Entries(preB), LAMBDA p : ~hasOwnProperty(preA, p.name))
           IN  /\ \A k \in Keys : has(preB, k)
                     => has(Post, k) /\ get(Post, k) = get(preB, k)
               /\ \A k \in Keys : (has(preA, k) /\ ~has(preB, k))
                     => has(Post, k) /\ get(Post, k) = get(preA, k)
               /\ PropNames(Entries(Post)) = PropNames(Entries(preA)) \o PropNames(new)
               /\ Length(Post) = Cardinality({ k \in Keys : has(preA, k) \/ has(preB, k) })
               /\ OthersUnchanged

(***************************************************************************)
(* C10.  Membership and lookup: has(k) is true iff k was set (by set,      *)
(* setObject, the constructor or merge) and not removed since, whatever    *)
(* value is stored; get(k) is the last value stored for such a key and     *)
(* undefined for any other key.                                            *)
(***************************************************************************)
C10_Membership ==
    \A s \in Stores : \A k \in Keys :
        /\ has(heap[s], k) <=> RefHas(ref[s], k)
        /\ get(heap[s], k) = IF RefHas(ref[s], k)
                             THEN ref[s][CHOOSE i \in DOMAIN ref[s] : ref[s][i].name = k].value
                             ELSE "undefined"

(***************************************************************************)
(* Runs that store no null and use no key containing the prefix character. *)
(* In these runs the statements of C2, C4, C6, C7 and C10 above hold.      *)
(***************************************************************************)
PlainKeys == { k \in Keys : \A i \in DOMAIN k : k[i] # MAPDATAPREFIX }

PlainValues == Values \ { "null" }

PlainObjects ==
    { o \in Objects :
        \A i \in DOMAIN o : o[i].name \in PlainKeys /\ o[i].value \in PlainValues }

PlainInit ==
    /\ \E oa \in PlainObjects \cup { <<>> }, ob \in PlainObjects \cup { <<>> } :
          /\ heap = [s \in Stores |-> IF s = "A" THEN HashMap(oa) ELSE HashMap(ob)]
          /\ ref = [s \in Stores |-> IF s = "A" THEN RefSetAll(<<>>, oa)
                                                ELSE RefSetAll(<<>>, ob)]
    /\ last = NoCall
    /\ steps = 0

PlainNext ==
    \/ \E s \in Stores, key \in PlainKeys, value \in PlainValues : Set(s, key, value)
    \/ \E s \in Stores, obj \in PlainObjects : SetObject(s, obj)
    \/ \E s \in Stores, other \in Stores :
          \E visitNew \in (IF s = other THEN BOOLEAN ELSE { FALSE }) :
              Merge(s, other, visitNew)
    \/ \E s \in Stores, args \in RemoveArgs :
          /\ \A i \in DOMAIN args.keys : args.keys[i] \in PlainKeys
          /\ Remove(s, args)
    \/ \E s \in Stores : RemoveAll(s)
    \/ \E s \in Stores, visitor \in Visitors : Each(s, visitor)
    \/ \E s \in Stores, key \in PlainKeys : Get(s, key)
    \/ \E s \in Stores, key \in PlainKeys : Has(s, key)
    \/ \E s \in Stores : KeysOf(s)
    \/ \E s \in Stores : ToArray(s)
    \/ \E s \in Stores, c \in Conditions : Find(s, c)
    \/ Return

SpecPlain == PlainInit /\ [][PlainNext]_vars

(***************************************************************************)
(* Runs whose user keys are names the instance itself uses: the size field *)
(* "length" and the inherited methods "set" and "hasOwnProperty".  No call *)
(* removes, so ref holds exactly the keys set so far.                      *)
(***************************************************************************)
ReservedKeys == { LENGTH, SET, HASOWNPROPERTY }

ReservedObjects ==
    { << Prop(LENGTH, "v1") >>,
      << Prop(SET, "undefined"), Prop(LENGTH, "null") >> }

ReservedInit ==
    /\ \E oa \in ReservedObjects \cup { <<>> } :
          /\ heap = [s \in Stores |-> IF s = "A" THEN HashMap(oa) ELSE HashMap(<<>>)]
          /\ ref = [s \in Stores |-> IF s = "A" THEN RefSetAll(<<>>, oa) ELSE <<>>]
    /\ last = NoCall
    /\ steps = 0

ReservedNext ==
    \/ \E s \in Stores, key \in ReservedKeys, value \in Values : Set(s, key, value)
    \/ \E s \in Stores, obj \in ReservedObjects : SetObject(s, obj)
    \/ \E s \in Stores, other \in Stores :
          \E visitNew \in (IF s = other THEN BOOLEAN ELSE { FALSE }) :
              Merge(s, other, visitNew)
    \/ \E s \in Stores, visitor \in Visitors : Each(s, visitor)
    \/ Return

SpecReserved == ReservedInit /\ [][ReservedNext]_vars

(***************************************************************************)
(* C11.  Separation of user entries from bookkeeping: a key equal to the   *)
(* name of the size field or of a method is a key like any other.  Before  *)
(* it is set has(k) is false and get(k) is undefined; set(k, v) changes    *)
(* length by the usual +1 and leaves the size field and the methods in     *)
(* place; the name of every stored entry starts with the prefix and the    *)
(* name of the size field does not, so each, keys and toArray visit the    *)
(* entries and never the size field.                                       *)
(***************************************************************************)
C11_ReservedKeys ==
    /\ \A s \in Stores :
          /\ Len(keys(heap[s])) = Len(ref[s])
          /\ Len(toArray(heap[s])) = Len(ref[s])
          /\ keys(heap[s]) = PropNames(ref[s])
          /\ toArray(heap[s]) = [i \in DOMAIN ref[s] |-> ref[s][i].value]
          \* the size field is the first own property and holds the count
          /\ heap[s][1].name = LENGTH
          /\ LENGTH[1] # MAPDATAPREFIX
          /\ Length(heap[s]) = Len(ref[s])
          \* every other own property is an entry, and no method is shadowed
          /\ \A i \in 2 .. Len(heap[s]) : heap[s][i].name[1] = MAPDATAPREFIX
          /\ \A m \in PrototypeNames :
                ~hasOwnProperty(heap[s], m) /\ GetProp(heap[s], m) = "function"
          /\ \A k \in ReservedKeys :
                ~RefHas(ref[s], k) => ~has(heap[s], k) /\ get(heap[s], k) = "undefined"
    /\ (last.op = "set" /\ ~has(Pre, last.key))
          => /\ Length(Post) = Length(Pre) + 1
             /\ get(Post, last.key) = last.value
    /\ last.op = "each"
          => Len(last.visited) <= Len(ref[last.store])

\* set('length', v) on an instance that already stores the key 'set'
C11_Witness ==
    /\ last.op = "set"
    /\ last.key = LENGTH
    /\ ~has(Pre, LENGTH)
    /\ has(Pre, SET)
    /\ Length(Post) = 2
    /\ get(Post, LENGTH) = last.value

(***************************************************************************)
(* C12.  Construction and setObject equal repeated set: new HashMap() has  *)
(* length 0 and no entries; new HashMap(obj), setObject(obj) and set(obj)  *)
(* leave the instance as the calls set(key, obj[key]) do, made for the own *)
(* keys of obj in its enumeration order.                                   *)
(***************************************************************************)
\* the calls this.set(key, obj[key]) for the properties of obj in order
RECURSIVE SetInOrder(_, _)
SetInOrder(this, obj) ==
    IF obj = <<>>
    THEN this
    ELSE SetInOrder(setKeyValue(this, Head(obj).name, Head(obj).value), Tail(obj))

\* after construction ref[s] is the object the constructor was given
C12_SetObjectIsRepeatedSet ==
    /\ (last.op = "new" /\ steps = 0)
          => \A s \in Stores :
                /\ heap[s] = SetInOrder(<< Prop(LENGTH, 0) >>, ref[s])
                /\ ref[s] = <<>> => Length(heap[s]) = 0 /\ Entries(heap[s]) = <<>>
    /\ last.op = "setObject"
          => /\ Post = SetInOrder(Pre, last.obj)
             /\ OthersUnchanged

\* setObject of two properties, one of them stored already
C12_Witness ==
    /\ last.op = "setObject"
    /\ Len(last.obj) = 2
    /\ Length(Pre) = 2
    /\ Length(Post) = 3

(***************************************************************************)
(* C13.  Consistent views: in every reachable state keys(), toArray() and  *)
(* find(p) enumerate the entries in the order of each; keys() holds the    *)
(* user key of every stored entry exactly once, toArray()[i] is the value  *)
(* stored under keys()[i], and find(p) is the subsequence of toArray()     *)
(* whose (value, key) pairs make p truthy.                                 *)
(***************************************************************************)
\* the keys a visitor that never stops receives from each
EachKeys(obj) ==
    each([s \in Stores |-> obj], "A",
         [kind |-> "visitor", stopAt |-> 0, other |-> "undefined"], FALSE).acc

\* the values vs[i] whose pair (vs[i], ks[i]) makes the condition truthy
RECURSIVE Satisfying(_, _, _)
Satisfying(vs, ks, c) ==
    IF vs = <<>>
    THEN <<>>
    ELSE (IF Truthy(condition(c, Head(vs), Head(ks))) THEN << Head(vs) >> ELSE <<>>)
         \o Satisfying(Tail(vs), Tail(ks), c)

C13_ConsistentViews ==
    \A s \in Stores :
        LET ks == keys(heap[s])
            vs == toArray(heap[s])
        IN  /\ ks = EachKeys(heap[s])
            /\ Len(ks) = Len(Entries(heap[s]))
            /\ Len(vs) = Len(ks)
            /\ \A k \in Keys :
                  Cardinality({ i \in DOMAIN ks : ks[i] = k })
                      = IF has(heap[s], k) THEN 1 ELSE 0
            /\ \A i \in DOMAIN ks : get(heap[s], ks[i]) = vs[i]
            /\ \A c \in Conditions : find(heap[s], c) = Satisfying(vs, ks, c)

(***************************************************************************)
(* Runs of the key codec: a key of up to MaxKeyLen characters, the prefix  *)
(* character among them, is encoded, the result is decoded, and then the   *)
(* key is stored in an empty instance and listed by each and by keys().    *)
(* Here last is the record of the codec calls made so far.                 *)
(***************************************************************************)
KeyAlphabet == { "a", "b", MAPDATAPREFIX }

KeyStrings == UNION { [1 .. n -> KeyAlphabet] : n \in 0 .. MaxKeyLen }

CodecInit ==
    /\ heap = [s \in Stores |-> HashMap(<<>>)]
    /\ ref = [s \in Stores |-> <<>>]
    /\ \E key \in KeyStrings :
          last = [op |-> "key", key |-> key, encoded |-> <<>>, decoded |-> <<>>,
                  visited |-> <<>>, listed |-> <<>>]
    /\ steps = 0

\* encoded = this.encodeKey(key)
EncodeKey ==
    /\ last.op = "key"
    /\ last' = [last EXCEPT !.op = "encodeKey", !.encoded = encodeKey(last.key)]
    /\ UNCHANGED <<heap, ref, steps>>

\* decoded = this.decodeKey(encoded)
DecodeKey ==
    /\ last.op = "encodeKey"
    /\ last' = [last EXCEPT !.op = "decodeKey", !.decoded = decodeKey(last.encoded)]
    /\ UNCHANGED <<heap, ref, steps>>

\* A.set(key, 'v1'), then A.each(visitor) and A.keys()
ListKey ==
    /\ last.op = "decodeKey"
    /\ heap' = [heap EXCEPT !["A"] = setKeyValue(@, last.key, "v1")]
    /\ ref' = [ref EXCEPT !["A"] = RefSet(@, last.key, "v1")]
    /\ last' = [last EXCEPT !.op = "keys",
                            !.visited = EachKeys(heap'["A"]),
                            !.listed = keys(heap'["A"])]
    /\ steps' = steps + 1

CodecNext == EncodeKey \/ DecodeKey \/ ListKey

SpecCodec == CodecInit /\ [][CodecNext]_vars

\* whether the key contains the prefix character
HasPrefixChar(key) == \E i \in DOMAIN key : key[i] = MAPDATAPREFIX

(***************************************************************************)
(* C14.  Round-trip law over the whole key domain: for every string key,   *)
(* those containing the prefix character included, decoding the encoded    *)
(* key gives the key back, and encodeKey is injective.                     *)
(***************************************************************************)
C14_RoundTrip ==
    /\ last.op = "decodeKey" => last.decoded = last.key
    /\ last.op = "encodeKey"
          => \A k \in KeyStrings : encodeKey(k) = last.encoded => k = last.key

(***************************************************************************)
(* C15.  Last-segment decode: decodeKey(encodeKey(k)) is the part of k     *)
(* after its last prefix character, hence k itself when k has none;        *)
(* decodeKey changes none of its own results, so keys(), which decodes the *)
(* key each has decoded already, reports the key the visitor of each       *)
(* receives.                                                               *)
(***************************************************************************)
\* the characters of key after its last prefix character
RECURSIVE LastSegment(_)
LastSegment(key) ==
    IF key = <<>> \/ key[Len(key)] = MAPDATAPREFIX
    THEN <<>>
    ELSE Append(LastSegment(SubSeq(key, 1, Len(key) - 1)), key[Len(key)])

C15_LastSegmentDecode ==
    /\ last.op \in { "decodeKey", "keys" }
          => /\ last.decoded = LastSegment(last.key)
             /\ ~HasPrefixChar(last.key) => last.decoded = last.key
             /\ decodeKey(last.decoded) = last.decoded
    /\ last.op = "keys"
          => /\ last.visited = << LastSegment(last.key) >>
             /\ last.listed = last.visited

\* a key with the prefix character in the middle, stored and listed
C15_Witness ==
    /\ last.op = "keys"
    /\ HasPrefixChar(last.key)
    /\ last.decoded # last.key
    /\ last.decoded # <<>>
    /\ last.listed = << last.decoded >>

(***************************************************************************)
(* C16.  Removal while iterating: when the visitor of each removes the key *)
(* it is visiting, as the visitor of removeAll does, every entry present   *)
(* when the iteration started is visited exactly once, none is skipped or  *)
(* visited twice, and each removal affects the visited entry only.         *)
(***************************************************************************)
C16_RemoveWhileIterating ==
    last.op = "removeAll"
        => /\ last.visits = Len(Entries(Pre))
           /\ Len(last.visited) = Len(Entries(Pre))
           /\ \A i \in DOMAIN last.visited :
                 /\ encodeKey(last.visited[i].key) = Entries(Pre)[i].name
                 /\ last.visited[i].deleted \subseteq { Entries(Pre)[i].name }
           /\ OthersUnchanged

(***************************************************************************)
(* C17.  Read-only operations have no effect: get, has, keys, toArray,     *)
(* find with a condition and each with a visitor that only look at their   *)
(* arguments leave the length, the entries, their values and their order   *)
(* as they were, in every reachable state, whether or not the key asked    *)
(* for is present.                                                         *)
(***************************************************************************)
ReadOnlyOps == { "get", "has", "keys", "toArray", "find", "each" }

C17_ReadOnly ==
    last.op \in ReadOnlyOps
        => /\ heap = last.pre
           /\ \A s \in Stores :
                 /\ Length(heap[s]) = Length(last.pre[s])
                 /\ Entries(heap[s]) = Entries(last.pre[s])

\* each stopped by its visitor at the first of two entries
C17_Witness ==
    /\ last.op = "each"
    /\ last.visits = 1
    /\ Length(Post) = 2
    /\ Entries(Post) = Entries(Pre)

(***************************************************************************)
(* C18.  Merge is idempotent and self-merge is a no-op: A.merge(B) made a  *)
(* second time leaves A, its entries, their order and its length, as the   *)
(* first call left it; A.merge(A) ends and leaves A as it was, although it *)
(* writes to A while it iterates over A.                                   *)
(***************************************************************************)
C18_MergeIdempotent ==
    last.op = "merge"
        => /\ \A visitNew \in (IF last.store = last.other THEN BOOLEAN ELSE { FALSE }) :
                 merge(heap, last.store, last.other, visitNew) = heap
           /\ last.store = last.other => heap = last.pre

(***************************************************************************)
(* defineNamespace.js.  In these runs heap is the sequence of the objects  *)
(* allocated so far, heap[1] being window; an object is the sequence of    *)
(* its properties as above.  A value is a record [type, v]: v is the       *)
(* address of an object or function, the number of a number, 0 otherwise.  *)
(* last is the call of defineNamespace just made; pre is the heap it       *)
(* started from, the caller's props object allocated.                      *)
(***************************************************************************)
Undefined == [type |-> "undefined", v |-> 0]
Number(n) == [type |-> "number", v |-> n]
ObjectAt(a) == [type |-> "object", v |-> a]
FunctionAt(a) == [type |-> "function", v |-> a]
window == ObjectAt(1)

ToBoolean(x) ==
    x.type \in { "object", "function" } \/ (x.type = "number" /\ x.v # 0)

\* tui.util.isObject: x === Object(x), true of objects and functions
isObject(x) == x.type \in { "object", "function" }

isFunction(x) == x.type = "function"

isValidType(module) == isObject(module) \/ isFunction(module)

\* name.split(sep): the pieces of name between the separators
RECURSIVE split(_, _)
split(name, sep) ==
    LET at == { i \in DOMAIN name : name[i] = sep }
    IN  IF at = {}
        THEN << name >>
        ELSE LET i == CHOOSE j \in at : \A k \in at : j <= k
             IN  << SubSeq(name, 1, i - 1) >> \o split(SubSeq(name, i + 1, Len(name)), sep)

\* obj[name] for a value obj that is not undefined: a number has no
\* property of the names used
GetValue(h, obj, name) ==
    IF isObject(obj) /\ hasOwnProperty(h[obj.v], name)
    THEN GetProp(h[obj.v], name)
    ELSE Undefined

\* the callback of getNamespace: function(obj, name) { return obj && obj[name]; }
getCallback(st, obj, name) ==
    [st EXCEPT !.store = IF ToBoolean(obj) THEN GetValue(st.heap, obj, name) ELSE obj]

\* the callback of defineNamespace replacing every intermediate binding
defineCallback_AlwaysNew(st, obj, name) ==
    IF obj.type = "undefined"
    THEN [st EXCEPT !.thrown = TRUE]
    ELSE LET allocated == Append(st.heap, <<>>)
             value == ObjectAt(Len(allocated))
         IN  IF isObject(obj)
             THEN [st EXCEPT !.heap = [allocated EXCEPT ![obj.v] = SetProp(@, name, value)],
                             !.store = value]
             ELSE IF st.strict
                  THEN [st EXCEPT !.heap = allocated, !.thrown = TRUE]
                  ELSE [st EXCEPT !.heap = allocated, !.store = Undefined]

\* the callback of defineNamespace:
\* function(obj, name) { obj[name] = obj[name] || {}; return obj[name]; }
\* Reading a property of undefined throws; writing a property of a number
\* throws in strict mode and does nothing otherwise.
defineCallback(st, obj, name) ==
    IF obj.type = "undefined"
    THEN [st EXCEPT !.thrown = TRUE]
    ELSE LET current == GetValue(st.heap, obj, name)
             allocated == IF ToBoolean(current) THEN st.heap ELSE Append(st.heap, <<>>)
             value == IF ToBoolean(current) THEN current ELSE ObjectAt(Len(allocated))
         IN  IF isObject(obj)
             THEN [st EXCEPT !.heap = [allocated EXCEPT ![obj.v] = SetProp(@, name, value)],
                             !.store = value]
             ELSE IF st.strict
                  THEN [st EXCEPT !.heap = allocated, !.thrown = TRUE]
                  ELSE [st EXCEPT !.heap = allocated, !.store = Undefined]

ReduceCallback(fn, st, obj, name) ==
    IF fn = "get" THEN getCallback(st, obj, name) ELSE defineCallback(st, obj, name)

\* tui.util.reduce(arr, iteratee) without an initial value: a left fold
\* that starts from the first element; it ends when the callback throws
RECURSIVE ReduceFrom(_, _, _, _)
ReduceFrom(arr, index, fn, st) ==
    IF index > Len(arr) \/ st.thrown
    THEN st
    ELSE ReduceFrom(arr, index + 1, fn, ReduceCallback(fn, st, st.store, arr[index]))

reduce(arr, fn, h, strict) ==
    ReduceFrom(arr, 2, fn, [heap |-> h, store |-> arr[1], thrown |-> FALSE,
                            strict |-> strict])

getNamespace(h, name) ==
    reduce(<< window >> \o split(name, "."), "get", h, FALSE).store

\* the result: the heap, whether a TypeError was thrown, the value returned
defineNamespace(h, name, props, isOverride, strict) ==
    LET module == getNamespace(h, name)
    IN  IF ~isOverride /\ isValidType(module)
        THEN [heap |-> h, thrown |-> FALSE, ret |-> module]
        ELSE LET namespace == split(name, ".")
                 lastspace == namespace[Len(namespace)]
                 r == reduce(<< window >> \o SubSeq(namespace, 1, Len(namespace) - 1),
                             "define", h, strict)
                 result == r.store
                 allocated == IF isValidType(props) THEN r.heap ELSE Append(r.heap, <<>>)
                 value == IF isValidType(props) THEN props ELSE ObjectAt(Len(allocated))
             IN  IF r.thrown \/ result.type = "undefined"
                 THEN [heap |-> r.heap, thrown |-> TRUE, ret |-> Undefined]
                 ELSE IF isObject(result)
                 THEN [heap |-> [allocated EXCEPT ![result.v] = SetProp(@, lastspace, value)],
                       thrown |-> FALSE, ret |-> value]
                 ELSE [heap |-> allocated, thrown |-> strict, ret |-> Undefined]

\* the names defined: 'a', 'b', 'a.b' and 'a.b.c'
NsNames ==
    { <<"a">>, <<"b">>, <<"a", ".", "b">>, <<"a", ".", "b", ".", "c">> }

\* what a caller passes as props: nothing, a number, a new object or a new
\* function
PropsKinds == { "undefined", "number", "object", "function" }

\* window at the start: empty, or with a number, 5 or 0, bound to 'a'
Windows == { <<>>, << Prop(<<"a">>, Number(5)) >>, << Prop(<<"a">>, Number(0)) >> }

NsInit ==
    /\ \E w \in Windows : heap = << w >>
    /\ ref = <<>>
    /\ last = [op |-> "new", name |-> <<>>, props |-> Undefined, isOverride |-> FALSE,
               pre |-> <<>>, thrown |-> FALSE, ret |-> Undefined]
    /\ steps = 0

\* defineNamespace(name, props, isOverride) in an engine that honours
\* 'use strict' or in one that does not know it
DefineNamespace(name, kind, isOverride, strict) ==
    /\ steps < MaxDefines
    /\ LET h == IF kind \in { "object", "function" } THEN Append(heap, <<>>) ELSE heap
           props == CASE kind = "undefined" -> Undefined
                      [] kind = "number" -> Number(5)
                      [] kind = "object" -> ObjectAt(Len(h))
                      [] kind = "function" -> FunctionAt(Len(h))
           r == defineNamespace(h, name, props, isOverride, strict)
       IN  /\ heap' = r.heap
           /\ last' = [op |-> "defineNamespace", name |-> name, props |-> props,
                       isOverride |-> isOverride, pre |-> h, thrown |-> r.thrown,
                       ret |-> r.ret]
    /\ steps' = steps + 1
    /\ ref' = ref

NsNext ==
    \E name \in NsNames, kind \in PropsKinds, isOverride \in BOOLEAN, strict \in BOOLEAN :
        DefineNamespace(name, kind, isOverride, strict)

SpecNs == NsInit /\ [][NsNext]_vars

\* the value is an empty object allocated by the call
FreshEmptyObject(x) ==
    /\ x.type = "object"
    /\ x.v \notin DOMAIN last.pre
    /\ heap[x.v] = <<>>

(***************************************************************************)
(* C19.  defineNamespace without override is create-or-fetch: when the     *)
(* path resolves to an object or function and isOverride is falsy, the     *)
(* call returns that binding and changes nothing, props being ignored, so  *)
(* defineNamespace(name) made twice returns the same object.  With         *)
(* isOverride truthy, or when the path does not resolve to an object or    *)
(* function, the last segment is bound to props if props is an object or   *)
(* function and to a fresh empty object otherwise, and the bound value is   *)
(* returned.                                                               *)
(***************************************************************************)
C19_CreateOrFetch ==
    last.op = "defineNamespace"
        => LET module == getNamespace(last.pre, last.name)
           IN  /\ ~last.thrown
               /\ IF ~last.isOverride /\ isValidType(module)
                  THEN last.ret = module /\ heap = last.pre
                  ELSE /\ IF isValidType(last.props)
                          THEN last.ret = last.props
                          ELSE FreshEmptyObject(last.ret)
                       /\ getNamespace(heap, last.name) = last.ret
               /\ \A strict \in BOOLEAN :
                     LET again == defineNamespace(heap, last.name, Undefined, FALSE, strict)
                     IN  again.ret = last.ret /\ again.heap = heap /\ ~again.thrown

(***************************************************************************)
(* C20.  defineNamespace preserves the rest of the tree: defining a path   *)
(* such as 'a.b.c' creates each missing intermediate node as an empty      *)
(* object, reuses every intermediate node that exists as an object without *)
(* replacing it, and leaves every binding outside the path as it was;      *)
(* afterwards looking the path up from the root gives the value the call   *)
(* returned.                                                               *)
(***************************************************************************)
\* the segments of the name of the last call
Path == split(last.name, ".")

\* what the first i segments of the path resolve to in the heap h
At(h, i) == reduce(<< window >> \o SubSeq(Path, 1, i), "get", h, FALSE).store

SegmentNames == { <<"a">>, <<"b">>, <<"c">> }

PlainStatements ==
    /\ C2_RemovePresent
    /\ C4_RemoveAllDrains
    /\ C6_KeysInInsertionOrder
    /\ C7_Merge
    /\ C10_Membership
    /\ C13_ConsistentViews
    /\ C16_RemoveWhileIterating
    /\ C18_MergeIdempotent

====
